---- MODULE Spec2Model ----
(***************************************************************************)
(* Tool-invocation bridge of the prompt-engineering coursework:            *)
(*   - MCPClient (week6/cloudflare-mcp/src/mcp-client.ts): the HTTP        *)
(*     provider session with its initialize handshake;                     *)
(*   - the execute wrappers and handleUserInput dispatch loops of the      *)
(*     week-4 / week-5 CLI chatbots;                                       *)
(*   - FinanceBotAgent.addMessage transcript compaction.                   *)
(* Strings the code builds are modelled as sequences of tokens, so that    *)
(* joins, placeholders and prefixes are computed rather than assumed.      *)
(***************************************************************************)
EXTENDS Integers, Sequences, FiniteSets, TLC

VARIABLES isInitialized, requestId, tools, sent, call, api

\* the chatbots: bot is the program being run; messages and
\* conversationContext are the agent's fields; the others follow one
\* execution of handleUserInput
VARIABLES bot, messages, conversationContext, pcT, asked, before, appended,
          queries, r1, provs, outs, r2, shown, cause, ctx, wrapped

\* a second execution of handleUserInput, started by a line typed while the
\* first one is awaiting the model: its position and what it has appended
VARIABLES turn2

clientVars == <<isInitialized, requestId, tools, sent, call, api>>

agentVars == <<messages, conversationContext>>

turnVars == <<pcT, asked, before, appended, queries, r1, provs, outs, r2,
              shown, cause, ctx>>

chatVars == <<bot, agentVars, turnVars, wrapped, turn2>>

\* direct use of FinanceBotAgent: the last method called and, for addMessage,
\* the array right after its push
VARIABLES lastOp, pushed

finVars == <<lastOp, pushed>>

\* the tool set of a chatbot agent: regPc follows initialize(), mcpServers
\* is the agent's server list (client: connected; listed / tools: what its
\* listTools answered), availableTools is the agent's field, offered is
\* the tools object last handed to
\* generateText; schemaIn / sigOut are the argument and the outcome of the
\* last schema translation
VARIABLES regPc, mcpServers, availableTools, offered, schemaIn, sigOut

toolVars == <<regPc, mcpServers, availableTools, offered, schemaIn, sigOut>>

\* ChatbotMCPServer behind the SDK client: the last tools/call request, the
\* handler's result, the implementations it invoked, what the client's
\* execute wrapper handed to the model, and the number of requests served
VARIABLES request, result, invoked, delivered, served

serverVars == <<request, result, invoked, delivered, served>>

vars == <<clientVars, chatVars, finVars, toolVars, serverVars>>

(***************************************************************************)
(* Bounds                                                                  *)
(***************************************************************************)
\* wire messages one MCPClient may send before the exploration stops
MaxSent == 6

\* model queries one chatbot run issues before the exploration stops; a user
\* turn is started only with room for its two queries
MaxQueries == 2

(***************************************************************************)
(* MCPClient                                                               *)
(***************************************************************************)
ToolNames == {"get_time", "get-time", "calc"}

\* the characters of a tool name
Chars(n) ==
  CASE n = "get_time" -> <<"g", "e", "t", "_", "t", "i", "m", "e">>
    [] n = "get-time" -> <<"g", "e", "t", "-", "t", "i", "m", "e">>
    [] OTHER -> <<"c", "a", "l", "c">>

\* [a-z], as far as the names use it
LowerCase == {"a", "c", "e", "g", "i", "l", "m", "t"}

\* letter.toUpperCase()
ToUpperCase(ch) ==
  CASE ch = "a" -> "A" [] ch = "c" -> "C" [] ch = "e" -> "E" [] ch = "g" -> "G"
    [] ch = "i" -> "I" [] ch = "l" -> "L" [] ch = "m" -> "M" [] ch = "t" -> "T"
    [] OTHER -> ch

RECURSIVE ToCamelCase(_)
\* str.replace(/[-_]([a-z])/g, (match, letter) => letter.toUpperCase())
ToCamelCase(str) ==
  IF str = <<>> THEN <<>>
  ELSE IF Len(str) >= 2 /\ str[1] \in {"-", "_"} /\ str[2] \in LowerCase
    THEN <<ToUpperCase(str[2])>> \o ToCamelCase(SubSeq(str, 3, Len(str)))
  ELSE <<str[1]>> \o ToCamelCase(Tail(str))

\* the function names generateTypeScriptAPI can produce
FunctionNames == {ToCamelCase(Chars(n)) : n \in ToolNames}

Absent == [name |-> "", ver |-> 0]

\* tool descriptors a server may list; ver distinguishes two descriptors
\* published under the same name
Descs == {[name |-> n, ver |-> v] : n \in ToolNames, v \in {1, 2}}

\* responses to tools/list: result.tools, in server order
Listings ==
  {<<>>} \cup {<<d>> : d \in Descs}
         \cup {<<[name |-> "get_time", ver |-> 1], [name |-> "calc", ver |-> 1]>>,
               <<[name |-> "get_time", ver |-> 1], [name |-> "get-time", ver |-> 1]>>,
               <<[name |-> "calc", ver |-> 1], [name |-> "calc", ver |-> 2]>>}

\* content chunks of a tools/call result
TextChunk(t) == [type |-> "text", text |-> t]
ImageChunk == [type |-> "image", text |-> <<>>]

\* results of tools/call a server may return
ToolResults ==
  {[content |-> <<>>, isError |-> FALSE],
   [content |-> <<TextChunk(<<"12:00">>)>>, isError |-> FALSE],
   [content |-> <<TextChunk(<<"boom">>)>>, isError |-> TRUE],
   [content |-> <<TextChunk(<<"a">>), ImageChunk>>, isError |-> FALSE]}

\* what a fetch of a JSON-RPC request can come back with
Outcomes == {"ok", "http", "rpc", "reject"}

NoVal == [k |-> "none", msg |-> <<>>, content |-> <<>>, isError |-> FALSE]

Idle == [op |-> "idle", pc |-> "idle", name |-> "", out |-> "none",
         fail |-> "none", val |-> NoVal]

\* the Error message sendRequest throws for a failed exchange
ErrMsg(o) ==
  CASE o = "http" -> <<"HTTP error! status: ", "500">>
    [] o = "rpc" -> <<"MCP Error: ", "server message">>
    [] OTHER -> <<"fetch failed">>

Wire(method) == [method |-> method, init |-> isInitialized]

\* sendRequest up to its await: take the next request id, post the request
SendRequest(method) ==
  /\ requestId' = requestId + 1
  /\ sent' = Append(sent, Wire(method))

\* the first synchronous segment of initialize(): post the initialize request
InitializeSend == SendRequest("initialize")

\* an MCPClient method touches nothing of the chatbots
ClientFrame == UNCHANGED <<bot, messages, conversationContext, pcT, asked, before,
                           appended, queries, r1, provs, outs, r2, shown, cause,
                           ctx, wrapped, turn2, lastOp, pushed, toolVars, serverVars>>

Quiet(c) == call[c].pc \in {"idle", "done"}

\* every caller other than c is between operations
OthersQuiet(c) == \A d \in DOMAIN call : d # c => Quiet(d)

\* room for the longest operation: initialize, notification, request
Room == Len(sent) + 3 <= MaxSent

Begin(c, op, n, pc) ==
  call' = [call EXCEPT ![c] = [op |-> op, pc |-> pc, name |-> n,
                               out |-> "none", fail |-> "none", val |-> NoVal]]

\* initialize(): no guard on isInitialized, the handshake is always sent
Initialize(c) ==
  /\ Quiet(c) /\ OthersQuiet(c) /\ Room
  /\ InitializeSend
  /\ Begin(c, "initialize", "", "awaitInitResp")
  /\ UNCHANGED <<isInitialized, tools, api>>
  /\ ClientFrame

\* variant without the isInitialized check
EnsureInitThenSendUnguarded(c, op, n, method) ==
  /\ SendRequest(method)
  /\ Begin(c, op, n, "awaitResp")

\* the lazy handshake shared by listTools and callTool:
\* if (!this.isInitialized) await this.initialize(); then sendRequest(method)
EnsureInitThenSend(c, op, n, method) ==
  IF ~isInitialized
    THEN /\ InitializeSend
         /\ Begin(c, op, n, "awaitInitResp")
    ELSE /\ SendRequest(method)
         /\ Begin(c, op, n, "awaitResp")

ListTools(c) ==
  /\ Quiet(c) /\ OthersQuiet(c) /\ Room
  /\ EnsureInitThenSend(c, "listTools", "", "tools/list")
  /\ UNCHANGED <<isInitialized, tools, api>>
  /\ ClientFrame

CallTool(c, n) ==
  /\ Quiet(c) /\ OthersQuiet(c) /\ Room
  /\ EnsureInitThenSend(c, "callTool", n, "tools/call")
  /\ UNCHANGED <<isInitialized, tools, api>>
  /\ ClientFrame

\* generateTypeScriptAPI starts with listTools()
GenerateTypeScriptAPI(c) ==
  /\ Quiet(c) /\ OthersQuiet(c) /\ Room
  /\ EnsureInitThenSend(c, "generateTypeScriptAPI", "", "tools/list")
  /\ UNCHANGED <<isInitialized, tools, api>>
  /\ ClientFrame

\* a function of the generated API: try { await this.callTool(tool.name, input)
ApiFn(c, f) ==
  /\ Quiet(c) /\ OthersQuiet(c) /\ Room
  /\ f \in DOMAIN api
  /\ EnsureInitThenSend(c, "apiFn", api[f], "tools/call")
  /\ UNCHANGED <<isInitialized, tools, api>>
  /\ ClientFrame

MethodOf(op) ==
  IF op \in {"listTools", "generateTypeScriptAPI"} THEN "tools/list" ELSE "tools/call"

\* variant that captures the failure into a ToolResult instead of throwing
ReturnErrorResult(c, o) ==
  call' = [call EXCEPT ![c] =
       [@ EXCEPT !.pc = "done", !.out = "returned", !.fail = o,
                 !.val = [NoVal EXCEPT !.k = "result", !.msg = ErrMsg(o),
                                       !.isError = TRUE]]]

\* an exception leaving the operation; the generated API function rethrows
\* it as  Tool '<name>' failed: <message>
Throw(c, o) ==
  LET f == call[c]
      msg == IF f.op = "apiFn"
               THEN <<"Tool '", f.name, "' failed: ">> \o ErrMsg(o)
               ELSE ErrMsg(o)
  IN call' = [call EXCEPT ![c] =
       [f EXCEPT !.pc = "done", !.out = "threw", !.fail = o,
                 !.val = [NoVal EXCEPT !.k = "error", !.msg = msg]]]

Return(c, v) ==
  call' = [call EXCEPT ![c] = [@ EXCEPT !.pc = "done", !.out = "returned", !.val = v]]

\* the response to the initialize request arrives (sendRequest lines 53-63);
\* on success initialize() goes on to post notifications/initialized
InitResponse(c, o) ==
  /\ call[c].pc = "awaitInitResp"
  /\ IF o = "ok"
       THEN /\ sent' = Append(sent, Wire("notifications/initialized"))
            /\ call' = [call EXCEPT ![c].pc = "awaitNotif"]
       ELSE /\ Throw(c, o)
            /\ UNCHANGED sent
  /\ UNCHANGED <<isInitialized, requestId, tools, api>>
  /\ ClientFrame

\* the notification's fetch settles: sendNotification looks at neither the
\* status nor the body, only a rejected fetch throws.  On success
\* initialize() sets the flag and returns; listTools / callTool go on with
\* their own request.
NotifResponse(c, o) ==
  /\ call[c].pc = "awaitNotif"
  /\ o \in {"ok", "http", "reject"}
  /\ IF o = "reject"
       THEN /\ Throw(c, o)
            /\ UNCHANGED <<isInitialized, requestId, sent>>
       ELSE /\ isInitialized' = TRUE
            /\ IF call[c].op = "initialize"
                 THEN /\ Return(c, [NoVal EXCEPT !.k = "init"])
                      /\ UNCHANGED <<requestId, sent>>
                 ELSE /\ requestId' = requestId + 1
                      /\ sent' = Append(sent, [method |-> MethodOf(call[c].op),
                                                init |-> isInitialized'])
                      /\ call' = [call EXCEPT ![c].pc = "awaitResp"]
  /\ UNCHANGED <<tools, api>>
  /\ ClientFrame

RECURSIVE GenerateApi(_, _)
\* for (const tool of tools) api[this.toCamelCase(tool.name)] = async (input)
\* => ... this.callTool(tool.name, input): the object built from listing l,
\* each function standing for the tool name it calls
GenerateApi(obj, l) ==
  IF l = <<>> THEN obj
  ELSE LET functionName == ToCamelCase(Chars(Head(l).name))
       IN GenerateApi([f \in DOMAIN obj \cup {functionName} |->
                         IF f = functionName THEN Head(l).name ELSE obj[f]],
                      Tail(l))

RECURSIVE CacheTools(_, _)
\* tools.forEach(tool => this.tools.set(tool.name, tool))
CacheTools(m, l) ==
  IF l = <<>> THEN m
  ELSE CacheTools([m EXCEPT ![Head(l).name] = Head(l)], Tail(l))

\* what the generated API function hands back for a ToolResult
ApiValue(r) ==
  IF Len(r.content) > 0
    THEN IF Len(r.content) = 1 /\ r.content[1].type = "text"
           THEN [NoVal EXCEPT !.k = "text", !.msg = r.content[1].text]
           ELSE [NoVal EXCEPT !.k = "content", !.content = r.content]
    ELSE [NoVal EXCEPT !.k = "result", !.content = r.content, !.isError = r.isError]

\* the response to tools/list or tools/call arrives
Response(c, o, l, r) ==
  /\ call[c].pc = "awaitResp"
  /\ IF o # "ok"
       THEN /\ Throw(c, o)
            /\ UNCHANGED <<tools, api>>
       ELSE CASE call[c].op = "listTools" ->
                   /\ tools' = CacheTools(tools, l)
                   /\ Return(c, [NoVal EXCEPT !.k = "tools", !.content = l])
                   /\ UNCHANGED api
              [] call[c].op = "generateTypeScriptAPI" ->
                   /\ tools' = CacheTools(tools, l)
                   /\ api' = GenerateApi(<<>>, l)
                   /\ Return(c, [NoVal EXCEPT !.k = "api"])
              [] call[c].op = "callTool" ->
                   /\ Return(c, [NoVal EXCEPT !.k = "result", !.content = r.content,
                                              !.isError = r.isError])
                   /\ UNCHANGED <<tools, api>>
              [] OTHER ->
                   /\ Return(c, ApiValue(r))
                   /\ UNCHANGED <<tools, api>>
  /\ UNCHANGED <<isInitialized, requestId, sent>>
  /\ ClientFrame

\* close(): this.tools.clear(); this.isInitialized = false
Close ==
  /\ \A c \in DOMAIN call : Quiet(c)
  /\ tools' = [n \in ToolNames |-> Absent]
  /\ isInitialized' = FALSE
  /\ UNCHANGED <<requestId, sent, call, api>>
  /\ ClientFrame

\* the provider never answers a posted request or notification: fetch is
\* given no signal and no timer is raced against it, so the await in
\* sendRequest / sendNotification is never resumed and the operation stays
\* pending (a runtime that gives up on its own rejects the fetch instead:
\* outcome "reject" of the response actions)
ProviderSilent(c) ==
  /\ call[c].pc \in {"awaitInitResp", "awaitNotif", "awaitResp"}
  /\ call' = [call EXCEPT ![c].pc = "pending"]
  /\ UNCHANGED <<isInitialized, requestId, tools, sent, api>>
  /\ ClientFrame

ClientInit ==
  /\ isInitialized = FALSE
  /\ requestId = 0
  /\ tools = [n \in ToolNames |-> Absent]
  /\ sent = <<>>
  /\ call = [c \in {1} |-> Idle]
  /\ api = <<>>

ClientNext ==
  \/ \E c \in DOMAIN call : Initialize(c)
  \/ \E c \in DOMAIN call : ListTools(c)
  \/ \E c \in DOMAIN call, n \in ToolNames : CallTool(c, n)
  \/ \E c \in DOMAIN call : GenerateTypeScriptAPI(c)
  \/ \E c \in DOMAIN call, f \in FunctionNames : ApiFn(c, f)
  \/ \E c \in DOMAIN call, o \in Outcomes : InitResponse(c, o)
  \/ \E c \in DOMAIN call, o \in Outcomes : NotifResponse(c, o)
  \/ \E c \in DOMAIN call, o \in Outcomes, l \in Listings, r \in ToolResults :
       Response(c, o, l, r)
  \/ Close


(***************************************************************************)
(* Strings as token sequences                                              *)
(***************************************************************************)
RECURSIVE Join(_, _)
\* Array.prototype.join
Join(ss, sep) ==
  IF ss = <<>> THEN <<>>
  ELSE IF Len(ss) = 1 THEN ss[1]
  ELSE ss[1] \o sep \o Join(Tail(ss), sep)

\* text.trim() === ''
Blank(t) == \A i \in 1..Len(t) : t[i] \in {" ", "\n"}

Msg(role, content) == [role |-> role, content |-> content]

(***************************************************************************)
(* Execute wrappers                                                        *)
(***************************************************************************)
\* what client.callTool of a provider can do: return a result or throw an
\* Error ("error") or some other value ("value")
ProvResponses ==
  {[threw |-> "no", content |-> <<>>, isError |-> FALSE],
   [threw |-> "no", content |-> <<TextChunk(<<"12:00">>)>>, isError |-> FALSE],
   [threw |-> "no", content |-> <<TextChunk(<<>>)>>, isError |-> FALSE],
   [threw |-> "no", content |-> <<TextChunk(<<"a">>), ImageChunk, TextChunk(<<"b">>)>>,
    isError |-> FALSE],
   [threw |-> "no", content |-> <<TextChunk(<<"boom">>)>>, isError |-> TRUE],
   [threw |-> "error", content |-> <<>>, isError |-> FALSE],
   [threw |-> "value", content |-> <<>>, isError |-> FALSE]}

RECURSIVE TextsOf(_)
\* content.filter(item => item.type === 'text').map(item => item.text)
TextsOf(content) ==
  IF content = <<>> THEN <<>>
  ELSE IF Head(content).type = "text"
         THEN <<Head(content).text>> \o TextsOf(Tail(content))
         ELSE TextsOf(Tail(content))

NoContentText == <<"Tool executed successfully but returned no content.">>

\* `Error executing ${name}: ${error instanceof Error ? error.message : 'Unknown error'}`
ExecuteErrorText(name, p) ==
  <<"Error executing ", name, ": ">>
    \o (IF p.threw = "error" THEN <<"connection closed">> ELSE <<"Unknown error">>)

\* variant without the try/catch around the provider call
ExecuteMCPNoCatch(name, p) ==
  IF p.threw # "no"
    THEN [threw |-> TRUE, out |-> <<>>]
    ELSE IF Len(p.content) > 0
           THEN [threw |-> FALSE, out |-> Join(TextsOf(p.content), <<"\n">>)]
           ELSE [threw |-> FALSE, out |-> NoContentText]

\* execute of MCPCLIAgent.createAISDKTools and of MCPManager.createMCPTools
ExecuteMCP(name, p) ==
  IF p.threw # "no"
    THEN [threw |-> FALSE, out |-> ExecuteErrorText(name, p)]
    ELSE IF Len(p.content) > 0
           THEN [threw |-> FALSE, out |-> Join(TextsOf(p.content), <<"\n">>)]
           ELSE [threw |-> FALSE, out |-> NoContentText]

\* execute of a tool of the week-4 CLI (tools.ts): the tool builds its own
\* string and catches its own errors
ExecuteLocal(name, p) ==
  IF p.threw # "no"
    THEN [threw |-> FALSE,
          out |-> <<"Error calculating ">>
                    \o (IF p.threw = "error" THEN <<"Invalid characters in expression">>
                                              ELSE <<"Unknown error">>)]
    ELSE [threw |-> FALSE, out |-> Join(TextsOf(p.content), <<>>)]

Execute(b, name, p) ==
  IF b = "cli4" THEN ExecuteLocal(name, p) ELSE ExecuteMCP(name, p)

\* outcomes of CodeMode.executeInWorker: the worker's result, or a throw
WorkerOutcomes ==
  {[threw |-> FALSE, val |-> <<"42">>],
   [threw |-> TRUE, val |-> <<"worker failed">>]}

\* execute of CodeMode.createCodemodeTool
ExecuteCodemode(w) ==
  IF w.threw
    THEN [threw |-> FALSE,
          out |-> <<"{error: ">> \o w.val \o <<", success: false}">>]
    ELSE [threw |-> FALSE, out |-> w.val]

(***************************************************************************)
(* Transcript                                                              *)
(***************************************************************************)
CompactThreshold == 10

KeepRecent == 8

\* Array.prototype.slice(-k)
SliceLast(q, k) == IF Len(q) <= k THEN q ELSE SubSeq(q, Len(q) - k + 1, Len(q))

\* Array.prototype.slice(0, -k)
SliceButLast(q, k) == IF Len(q) <= k THEN <<>> ELSE SubSeq(q, 1, Len(q) - k)

\* the topics whose keywords a token contains
TokenTopics(tok) ==
  CASE tok = "stock" -> {"investments"}
    [] tok = "budget" -> {"budgeting"}
    [] tok = "goal" -> {"financial_planning"}
    [] tok = "risk" -> {"risk_management"}
    [] OTHER -> {}

TopicOrder == <<"investments", "budgeting", "financial_planning", "risk_management">>

ContentTopics(content) == UNION {TokenTopics(content[i]) : i \in 1..Len(content)}

RECURSIVE AddTopics(_, _, _)
\* the four topics.add of one message, in the order they are written; a Set
\* keeps insertion order and ignores a second add
AddTopics(found, have, i) ==
  IF i > Len(TopicOrder) THEN found
  ELSE AddTopics(IF TopicOrder[i] \in have
                      /\ \A j \in 1..Len(found) : found[j] # TopicOrder[i]
                   THEN Append(found, TopicOrder[i]) ELSE found,
                 have, i + 1)

RECURSIVE CollectTopics(_, _)
CollectTopics(found, msgs) ==
  IF msgs = <<>> THEN found
  ELSE CollectTopics(AddTopics(found, ContentTopics(Head(msgs).content), 1), Tail(msgs))

\* FinanceBotAgent.summarizeOldMessages
SummarizeOldMessages(msgs) ==
  LET topics == CollectTopics(<<>>, SliceButLast(msgs, KeepRecent))
  IN <<"Previous conversation covered: ">>
       \o Join([i \in 1..Len(topics) |-> <<topics[i]>>], <<", ">>)

\* variant keeping only the last two messages
FinanceAddMessageKeepTwo(st, m) ==
  LET all == Append(st.messages, m)
  IN IF Len(all) > CompactThreshold
       THEN [messages |-> SliceLast(all, 2),
             conversationContext |-> SummarizeOldMessages(all)]
       ELSE [messages |-> all, conversationContext |-> st.conversationContext]

\* FinanceBotAgent.addMessage on the pair of fields it touches
FinanceAddMessage(st, m) ==
  LET all == Append(st.messages, m)
  IN IF Len(all) > CompactThreshold
       THEN [messages |-> SliceLast(all, KeepRecent),
             conversationContext |-> SummarizeOldMessages(all)]
       ELSE [messages |-> all, conversationContext |-> st.conversationContext]

\* addMessage of the agent the bot runs
AddMessage(b, st, m) ==
  IF b = "finance" THEN FinanceAddMessage(st, m)
  ELSE [st EXCEPT !.messages = Append(@, m)]

AgentState == [messages |-> messages, conversationContext |-> conversationContext]

\* the system prompt of the bot: instructions, profile and tool list; the
\* finance prompt is built from the profile and the MCP tools only
SystemPrompt(b) ==
  CASE b = "finance" -> <<"You are FinanceBot", "## Current User Profile",
                          "## Available Tools">>
    [] b = "mcpcli" -> <<"You are a helpful AI assistant with MCP tools",
                         "Available tools:">>
    [] OTHER -> <<"You are a helpful AI assistant with access to various tools">>

\* generateText({messages: this.messages, tools, system})
Context(b, st) == [system |-> SystemPrompt(b), messages |-> st.messages]

(***************************************************************************)
(* handleUserInput                                                         *)
(***************************************************************************)
Bots == {"mcpcli", "finance", "cli4"}

UserInputs == {<<"what time is it">>}

ModelTexts == {<<>>, <<" ">>, <<"It is noon">>}

Call1 == [toolCallId |-> 1, toolName |-> "get_time"]
Call2 == [toolCallId |-> 2, toolName |-> "calc"]

\* tool-call intents of one response, in emission order
CallSeqs == {<<>>, <<Call1>>, <<Call1, Call2>>}

\* completion orders of n tool invocations
Orders(n) == IF n = 2 THEN {<<1, 2>>, <<2, 1>>} ELSE IF n = 1 THEN {<<1>>} ELSE {<<>>}

NoResponse == [text |-> <<>>, toolCalls |-> <<>>, toolResults |-> <<>>]

NoResult == [found |-> FALSE, toolCallId |-> 0, output |-> <<>>]

RECURSIVE FindResult(_, _)
\* result.toolResults?.find(r => r.toolCallId === call.toolCallId)
FindResult(trs, id) ==
  IF trs = <<>> THEN NoResult
  ELSE IF Head(trs).toolCallId = id
         THEN [found |-> TRUE, toolCallId |-> id, output |-> Head(trs).output]
         ELSE FindResult(Tail(trs), id)

\* `${call.toolName} returned: ${toolResult?.output || 'No result'}`
ToolResultLine(c, tr) ==
  <<c.toolName, " returned: ">>
    \o (IF tr.found /\ tr.output # <<>> THEN tr.output ELSE <<"No result">>)

\* variant pairing calls and results by position
ToolResultsTextByPosition(r) ==
  Join([i \in 1..Len(r.toolCalls) |->
          ToolResultLine(r.toolCalls[i],
                         IF i <= Len(r.toolResults)
                           THEN [found |-> TRUE,
                                 toolCallId |-> r.toolResults[i].toolCallId,
                                 output |-> r.toolResults[i].output]
                           ELSE NoResult)],
       <<"\n">>)

\* result.toolCalls.map(...).join('\n')
ToolResultsText(r) ==
  Join([i \in 1..Len(r.toolCalls) |->
          ToolResultLine(r.toolCalls[i],
                         FindResult(r.toolResults, r.toolCalls[i].toolCallId))],
       <<"\n">>)

ToolResultsHead == "Based on the tool results:\n"

ToolResultsTail(b) ==
  IF b = "finance"
    THEN "\n\nPlease provide a comprehensive financial analysis and personalized recommendations based on my profile."
    ELSE "\n\nPlease provide a natural language response to my original question."

ToolResultsMessage(b, r) ==
  Msg("user", <<ToolResultsHead>> \o ToolResultsText(r) \o <<ToolResultsTail(b)>>)

\* variant appending the tool-result turn before the assistant turn
SynthesisTurnsToolFirst(b, r) == <<ToolResultsMessage(b, r), Msg("assistant", r.text)>>

\* the two turns appended before the second query: the assistant turn of the
\* response (content: result.text || ''), then the tool-result turn
SynthesisTurns(b, r) == <<Msg("assistant", r.text), ToolResultsMessage(b, r)>>

\* variant that forgets the trim()
NeedsSynthesisUntrimmed(r) == Len(r.toolCalls) > 0 /\ r.text = <<>>

\* result.toolCalls && result.toolCalls.length > 0 &&
\* (!result.text || result.text.trim() === '')
NeedsSynthesis(r) == Len(r.toolCalls) > 0 /\ Blank(r.text)

\* `${text || 'No response generated'}`
Display(text) == IF text = <<>> THEN <<"No response generated">> ELSE text

\* variant that stores what is displayed
FinalAssistantContentDisplayed(text) == Display(text)

\* content of the assistant turn appended for a response: its text
FinalAssistantContent(text) == text

Nothing == <<"(nothing)">>

\* the catch block: if (messages.length > 0) messages.pop()
PopLast(q) == IF Len(q) > 0 THEN SubSeq(q, 1, Len(q) - 1) ELSE q

\* the chatbots use the SDK client, not MCPClient
ChatFrame == UNCHANGED <<isInitialized, requestId, tools, sent, call, api,
                         turn2, lastOp, pushed, toolVars, serverVars>>

TurnOver == pcT \in {"idle", "done", "failed", "cleared"}

\* a line that is not a control input arrives: handleUserInput up to the
\* first await generateResponse()
HandleUserInput(inp) ==
  /\ TurnOver
  /\ asked + 2 <= MaxQueries
  /\ LET m == Msg("user", inp)
         st == AddMessage(bot, AgentState, m)
     IN /\ messages' = st.messages
        /\ conversationContext' = st.conversationContext
        /\ appended' = <<m>>
        /\ ctx' = Context(bot, st)
  /\ before' = messages
  /\ asked' = asked + 1
  /\ queries' = 1
  /\ pcT' = "query1"
  /\ r1' = NoResponse /\ r2' = NoResponse
  /\ provs' = <<>> /\ outs' = <<>>
  /\ shown' = Nothing
  /\ cause' = "none"
  /\ UNCHANGED <<bot, wrapped>>
  /\ ChatFrame

\* the catch block of handleUserInput
Catch(why) ==
  /\ messages' = PopLast(messages)
  /\ pcT' = "failed"
  /\ cause' = why
  /\ UNCHANGED <<conversationContext, appended, ctx, queries, asked, shown>>

\* lines typed at the prompt
Lines == UserInputs \cup {<<"help">>, <<"profile">>, <<"status">>, <<"clear">>,
                          <<>>, <<" ", "status", " ">>}

RECURSIVE TrimStart(_)
TrimStart(q) == IF q # <<>> /\ Head(q) = " " THEN TrimStart(Tail(q)) ELSE q

RECURSIVE TrimEnd(_)
TrimEnd(q) ==
  IF q # <<>> /\ q[Len(q)] = " " THEN TrimEnd(SubSeq(q, 1, Len(q) - 1)) ELSE q

\* input.trim()
Trim(input) == TrimEnd(TrimStart(input))

\* variant of the line handler that does not know the clear command
ControlInputsWithoutClear(b) ==
  CASE b = "finance" -> {<<"status">>, <<"help">>, <<"profile">>, <<>>}
    [] b = "mcpcli" -> {<<"status">>, <<>>}
    [] OTHER -> {<<>>}

\* the inputs the line handler of bot b answers itself (exit and quit, which
\* end the process, left aside): every other line goes to handleUserInput
ControlInputs(b) ==
  CASE b = "finance" -> {<<"clear">>, <<"status">>, <<"help">>, <<"profile">>, <<>>}
    [] b = "mcpcli" -> {<<"clear">>, <<"status">>, <<>>}
    [] OTHER -> {<<"clear">>, <<>>}

\* clearHistory(): this.messages = [] and, in FinanceBotAgent,
\* this.conversationContext = ''
ClearHistory ==
  /\ messages' = <<>>
  /\ conversationContext' = <<>>
  /\ pcT' = "cleared"
  /\ UNCHANGED <<bot, asked, before, appended, queries, r1, provs, outs, r2,
                 shown, cause, ctx, wrapped>>
  /\ ChatFrame

\* status, help, profile print from getState(); the empty line only prompts
ShowOrPrompt == UNCHANGED vars

\* the 'line' handler of the CLI, for a line typed when the prompt is shown
OnLine(input) ==
  /\ TurnOver
  /\ LET trimmed == Trim(input)
     IN IF trimmed \in ControlInputs(bot)
          THEN IF trimmed = <<"clear">> THEN ClearHistory ELSE ShowOrPrompt
          ELSE HandleUserInput(trimmed)

\* generateText rejects: the model boundary failed
ModelFails ==
  /\ pcT \in {"query1", "query2"}
  /\ Catch("model")
  /\ UNCHANGED <<bot, before, r1, provs, outs, r2, wrapped>>
  /\ ChatFrame

\* the first response arrives.  generateText has run the execute wrapper of
\* each intent (ps[i] is what the provider did for intent i) and lists the
\* results in completion order.
Response1(text, calls, ps, order) ==
  /\ pcT = "query1"
  /\ LET os == [i \in 1..Len(calls) |-> Execute(bot, calls[i].toolName, ps[i])]
         r == [text |-> text, toolCalls |-> calls,
               toolResults |-> [j \in 1..Len(calls) |->
                                  [toolCallId |-> calls[order[j]].toolCallId,
                                   output |-> os[order[j]].out]]]
     IN /\ r1' = r
        /\ provs' = ps
        /\ outs' = os
        /\ IF \E i \in 1..Len(os) : os[i].threw
             THEN /\ Catch("tool")
                  /\ UNCHANGED r2
             ELSE IF bot = "cli4"
               THEN \* addMessage(assistant, result.text); then
                    \* console.log(result.text ? result.text : result.toolResults[0].output)
                    LET a == Msg("assistant", text)
                        st == AddMessage(bot, AgentState, a)
                    IN IF text = <<>> /\ r.toolResults = <<>>
                         THEN /\ messages' = PopLast(st.messages)
                              /\ appended' = Append(appended, a)
                              /\ pcT' = "failed"
                              /\ cause' = "display"
                              /\ UNCHANGED <<conversationContext, ctx, queries, asked,
                                             shown, r2>>
                         ELSE /\ messages' = st.messages
                              /\ appended' = Append(appended, a)
                              /\ shown' = IF text # <<>> THEN text
                                          ELSE r.toolResults[1].output
                              /\ pcT' = "done"
                              /\ UNCHANGED <<conversationContext, ctx, queries, asked,
                                             cause, r2>>
               ELSE IF NeedsSynthesis(r)
                 THEN LET s == SynthesisTurns(bot, r)
                          st == AddMessage(bot, AddMessage(bot, AgentState, s[1]), s[2])
                      IN /\ messages' = st.messages
                         /\ conversationContext' = st.conversationContext
                         /\ appended' = appended \o s
                         /\ ctx' = Context(bot, st)
                         /\ queries' = queries + 1
                         /\ asked' = asked + 1
                         /\ pcT' = "query2"
                         /\ UNCHANGED <<shown, cause, r2>>
                 ELSE LET a == Msg("assistant", FinalAssistantContent(text))
                          st == AddMessage(bot, AgentState, a)
                      IN /\ messages' = st.messages
                         /\ conversationContext' = st.conversationContext
                         /\ appended' = Append(appended, a)
                         /\ shown' = Display(text)
                         /\ pcT' = "done"
                         /\ UNCHANGED <<ctx, queries, asked, cause, r2>>
  /\ UNCHANGED <<bot, before, wrapped>>
  /\ ChatFrame

\* the second (synthesis) response arrives; its text is stored and shown,
\* tool calls it may carry are not looked at
Response2(text, calls) ==
  /\ pcT = "query2"
  /\ r2' = [text |-> text, toolCalls |-> calls, toolResults |-> <<>>]
  /\ LET a == Msg("assistant", FinalAssistantContent(text))
         st == AddMessage(bot, AgentState, a)
     IN /\ messages' = st.messages
        /\ conversationContext' = st.conversationContext
        /\ appended' = Append(appended, a)
  /\ shown' = Display(text)
  /\ pcT' = "done"
  /\ UNCHANGED <<bot, before, queries, asked, r1, provs, outs, cause, ctx, wrapped>>
  /\ ChatFrame

\* the model invokes the codemode tool (explored from the start of a run:
\* the wrapper reads nothing of the transcript)
CodemodeExecute(w) ==
  /\ pcT = "idle"
  /\ wrapped' = [input |-> w, result |-> ExecuteCodemode(w)]
  /\ UNCHANGED <<bot, agentVars, turnVars>>
  /\ ChatFrame

NoWrapped == [input |-> [threw |-> FALSE, val |-> <<>>],
              result |-> [threw |-> FALSE, out |-> <<>>]]

PlainTurn == <<Msg("user", <<"stock">>), Msg("assistant", <<"It is noon">>)>>

\* transcripts a run starts from: empty, or what earlier plain turns left
StartTranscripts(b) ==
  IF b = "finance"
    THEN {<<>>, PlainTurn \o PlainTurn \o PlainTurn \o PlainTurn,
          PlainTurn \o PlainTurn \o PlainTurn \o PlainTurn \o PlainTurn}
    ELSE {<<>>}

NoTurn2 == [pc |-> "idle", appended |-> <<>>]

TurnIdle ==
  /\ turn2 = NoTurn2
  /\ pcT = "idle" /\ asked = 0 /\ before = <<>> /\ appended = <<>>
  /\ queries = 0 /\ r1 = NoResponse /\ r2 = NoResponse
  /\ provs = <<>> /\ outs = <<>> /\ shown = Nothing /\ cause = "none"
  /\ ctx = [system |-> <<>>, messages |-> <<>>]
  /\ wrapped = NoWrapped

ChatInit ==
  /\ bot \in Bots
  /\ messages \in StartTranscripts(bot)
  /\ conversationContext = <<>>
  /\ TurnIdle

ChatNext ==
  \/ \E input \in Lines : OnLine(input)
  \/ \E text \in ModelTexts, calls \in CallSeqs :
       \E ps \in [1..Len(calls) -> ProvResponses], order \in Orders(Len(calls)) :
         Response1(text, calls, ps, order)
  \/ \E text \in ModelTexts, calls \in CallSeqs : Response2(text, calls)
  \/ ModelFails
  \/ \E w \in WorkerOutcomes : CodemodeExecute(w)

\* the line typed while the first turn is pending, and the model's answer
SecondInput == <<"and the date">>

SecondText == <<"It is Friday">>

\* handleUserInput up to its await, entered while the execution started by
\* the previous line is suspended in generateResponse(): the 'line' listener
\* is async and readline does not wait for it
SecondLine ==
  /\ pcT \in {"query1", "query2"}
  /\ turn2.pc = "idle"
  /\ LET m == Msg("user", SecondInput)
         st == AddMessage(bot, AgentState, m)
     IN /\ messages' = st.messages
        /\ conversationContext' = st.conversationContext
        /\ turn2' = [pc |-> "query1", appended |-> <<m>>]
  /\ UNCHANGED <<bot, turnVars, wrapped>>
  /\ UNCHANGED <<clientVars, finVars, toolVars, serverVars>>

\* the second execution's response arrives (text, no tool calls)
SecondResponse ==
  /\ turn2.pc = "query1"
  /\ LET a == Msg("assistant", SecondText)
         st == AddMessage(bot, AgentState, a)
     IN /\ messages' = st.messages
        /\ conversationContext' = st.conversationContext
        /\ turn2' = [pc |-> "done", appended |-> Append(turn2.appended, a)]
  /\ UNCHANGED <<bot, turnVars, wrapped>>
  /\ UNCHANGED <<clientVars, finVars, toolVars, serverVars>>

\* the second execution's generateResponse() rejects: its catch block
SecondFails ==
  /\ turn2.pc = "query1"
  /\ messages' = PopLast(messages)
  /\ turn2' = [turn2 EXCEPT !.pc = "failed"]
  /\ UNCHANGED <<bot, conversationContext, turnVars, wrapped>>
  /\ UNCHANGED <<clientVars, finVars, toolVars, serverVars>>

\* the CLIs that talk to MCP servers, started on an empty transcript
ChatOverlapInit ==
  /\ bot \in {"mcpcli", "finance"}
  /\ messages = <<>>
  /\ conversationContext = <<>>
  /\ TurnIdle

ChatOverlapNext ==
  \/ \E inp \in UserInputs : HandleUserInput(inp)
  \/ \E text \in ModelTexts, calls \in CallSeqs :
       \E ps \in [1..Len(calls) -> ProvResponses], order \in Orders(Len(calls)) :
         Response1(text, calls, ps, order)
  \/ \E text \in ModelTexts, calls \in CallSeqs : Response2(text, calls)
  \/ ModelFails
  \/ SecondLine
  \/ SecondResponse
  \/ SecondFails

\* the parts a specification does not run stay as constructed
ClientRest == ClientInit

ChatRest == bot = "mcpcli" /\ messages = <<>> /\ conversationContext = <<>> /\ TurnIdle

(***************************************************************************)
(* FinanceBotAgent used directly: addMessage, clearHistory, generateResponse*)
(***************************************************************************)
FinMsgs == {Msg("user", <<"stock">>), Msg("assistant", <<"budget">>)}

NoCtx == [system |-> <<>>, messages |-> <<>>]

\* a call on the agent touches neither a running turn nor MCPClient
FinFrame ==
  UNCHANGED <<bot, pcT, asked, before, appended, queries, r1, provs, outs, r2,
              shown, cause, wrapped, isInitialized, requestId, tools, sent,
              call, api, turn2, toolVars, serverVars>>

FinAddMessage(m) ==
  /\ FinFrame
  /\ LET st == FinanceAddMessage(AgentState, m)
     IN /\ messages' = st.messages
        /\ conversationContext' = st.conversationContext
  /\ pushed' = Append(messages, m)
  /\ lastOp' = "add"
  /\ ctx' = NoCtx

\* FinanceBotAgent.clearHistory
FinClearHistory ==
  /\ FinFrame
  /\ messages' = <<>>
  /\ conversationContext' = <<>>
  /\ pushed' = <<>>
  /\ lastOp' = "clear"
  /\ ctx' = NoCtx

\* FinanceBotAgent.generateResponse: what is handed to generateText
FinGenerateResponse ==
  /\ FinFrame
  /\ lastOp # "query"
  /\ ctx' = Context("finance", AgentState)
  /\ lastOp' = "query"
  /\ UNCHANGED <<messages, conversationContext, pushed>>

FinInit ==
  /\ bot = "finance" /\ messages = <<>> /\ conversationContext = <<>>
  /\ TurnIdle
  /\ lastOp = "none" /\ pushed = <<>>

FinNext ==
  \/ \E m \in FinMsgs : FinAddMessage(m)
  \/ FinClearHistory
  \/ FinGenerateResponse

FinRest == lastOp = "none" /\ pushed = <<>>

(***************************************************************************)
(* The tool set offered to the model                                       *)
(***************************************************************************)
\* names FinanceTools.initialize registers the built-in tools under
BuiltinNames == {"calculateCompoundInterest", "calculateLoanPayment", "createBudgetAnalysis"}

\* names MCP servers may list; one of them is also the name of a built-in tool
McpNames == {"calculateCompoundInterest", "getStockPrice"}

OfferNames == BuiltinNames \cup McpNames

\* this.mcpServers, in configuration order (the loops take any number of
\* servers; the shipped configurations name one)
Servers == <<"s1", "s2">>

\* an entry of a tools object: where its descriptor and handler come from
NoEntry == [origin |-> "absent", ver |-> 0, serverName |-> ""]

BuiltinEntry == [origin |-> "builtin", ver |-> 0, serverName |-> ""]

\* tools[mcpTool.name] = tool({description, inputSchema, execute}): the
\* descriptor of mcpTool and a handler calling mcpTool.client
McpEntry(t) == [origin |-> "mcp", ver |-> t.ver, serverName |-> t.serverName]

NoTools == [n \in OfferNames |-> NoEntry]

Stock(v) == [name |-> "getStockPrice", ver |-> v]

Interest(v) == [name |-> "calculateCompoundInterest", ver |-> v]

\* what client.listTools() of one server answers (ver tells two descriptors
\* of one name apart), or a rejection
ListAnswers ==
  {[ok |-> FALSE, tools |-> <<>>]}
    \cup {[ok |-> TRUE, tools |-> l] :
            l \in {<<>>, <<Stock(1)>>, <<Interest(1)>>, <<Stock(1), Interest(1)>>,
                   <<Stock(1), Stock(2)>>, <<Interest(2), Stock(2)>>}}

\* {...tool, serverName: serverConfig.name, client: serverConfig.client}
Tagged(l, sv) ==
  [i \in 1..Len(l) |-> [name |-> l[i].name, ver |-> l[i].ver, serverName |-> sv]]

\* a step of the agent touches nothing of the other programs
ToolsFrame == UNCHANGED <<clientVars, chatVars, finVars, serverVars>>

\* a server as the constructor lists it: no client yet
ServerConfig(i) == [name |-> Servers[i], client |-> FALSE, listed |-> "no", tools |-> <<>>]

\* try { await this.connectToMCPServer(serverConfig) } catch { log }:
\* serverConfig.client is set only when client.connect resolved
TryConnect(connects) == [threw |-> FALSE, client |-> connects]

\* initialize() up to loadAvailableTools(): the connection loop
AgentInitialize(c1, c2) ==
  /\ regPc = "constructed"
  /\ LET t == <<TryConnect(c1), TryConnect(c2)>>
     IN /\ regPc' = IF t[1].threw \/ t[2].threw THEN "threw" ELSE "connected"
        /\ mcpServers' = [i \in 1..2 |-> [mcpServers[i] EXCEPT !.client = t[i].client]]
  /\ UNCHANGED <<availableTools, offered, schemaIn, sigOut>>
  /\ ToolsFrame

\* what loadAvailableTools takes from one server: nothing without a client
\* or when its listTools rejects
ToolsOf(sv, a) == IF sv.client /\ a.ok THEN Tagged(a.tools, sv.name) ELSE <<>>

\* variant that walks the servers from the last to the first
CollectToolsBackwards(svs, as) == ToolsOf(svs[2], as[2]) \o ToolsOf(svs[1], as[1])

\* for (const serverConfig of this.mcpServers) ... this.availableTools.push
CollectTools(svs, as) == ToolsOf(svs[1], as[1]) \o ToolsOf(svs[2], as[2])

\* loadAvailableTools(), awaited last by initialize(): the list is rebuilt
\* from the servers in order
LoadAvailableTools(a1, a2) ==
  /\ regPc = "connected"
  /\ availableTools' = CollectTools(mcpServers, <<a1, a2>>)
  /\ mcpServers' = [i \in 1..2 |->
                      IF ~mcpServers[i].client THEN mcpServers[i]
                      ELSE [mcpServers[i] EXCEPT
                              !.listed = IF <<a1, a2>>[i].ok THEN "ok" ELSE "failed",
                              !.tools = IF <<a1, a2>>[i].ok THEN <<a1, a2>>[i].tools
                                        ELSE <<>>]]
  /\ regPc' = "initialized"
  /\ UNCHANGED <<offered, schemaIn, sigOut>>
  /\ ToolsFrame

RECURSIVE CreateMCPToolsFirstWins(_, _)
\* variant in which a name already present is not replaced
CreateMCPToolsFirstWins(obj, avail) ==
  IF avail = <<>> THEN obj
  ELSE CreateMCPToolsFirstWins(
         IF obj[Head(avail).name].origin = "absent"
           THEN [obj EXCEPT ![Head(avail).name] = McpEntry(Head(avail))]
           ELSE obj,
         Tail(avail))

RECURSIVE CreateMCPTools(_, _)
\* const tools = {}; for (const mcpTool of this.availableTools)
\*   tools[mcpTool.name] = tool({...})
CreateMCPTools(obj, avail) ==
  IF avail = <<>> THEN obj
  ELSE CreateMCPTools([obj EXCEPT ![Head(avail).name] = McpEntry(Head(avail))],
                      Tail(avail))

\* Object.assign(target, source)
ObjectAssign(target, source) ==
  [n \in DOMAIN target |-> IF source[n].origin # "absent" THEN source[n] ELSE target[n]]

\* FinanceTools.getTools()
GetTools == [n \in OfferNames |-> IF n \in BuiltinNames THEN BuiltinEntry ELSE NoEntry]

\* MCPCLIAgent.generateResponse -> createAISDKTools(); start() awaits
\* initialize() before it reads a line
CreateAISDKTools ==
  /\ regPc = "initialized"
  /\ offered' = [by |-> "createAISDKTools",
                 tools |-> CreateMCPTools(NoTools, availableTools)]
  /\ UNCHANGED <<regPc, mcpServers, availableTools, schemaIn, sigOut>>
  /\ ToolsFrame

\* FinanceBotAgent.generateResponse -> createAllTools()
CreateAllTools ==
  /\ regPc = "initialized"
  /\ offered' = [by |-> "createAllTools",
                 tools |-> ObjectAssign(ObjectAssign(NoTools, GetTools),
                                        CreateMCPTools(NoTools, availableTools))]
  /\ UNCHANGED <<regPc, mcpServers, availableTools, schemaIn, sigOut>>
  /\ ToolsFrame

(***************************************************************************)
(* Schema translation                                                      *)
(* A schema value is a heap of JSON nodes and the index of its root (0: no *)
(* inputSchema at all); a property or items entry refers to a node, so a   *)
(* value may nest to any depth and an in-memory value may refer to itself. *)
(***************************************************************************)
\* call-stack frames the engine grants a translation before it throws
\* RangeError (Maximum call stack size exceeded)
MaxStack == 8

\* null where a schema is expected
NullNode == [k |-> "null", type |-> "none", propsK |-> "none", props |-> <<>>,
             requiredK |-> "none", required |-> <<>>, items |-> 0, desc |-> FALSE]

\* a number where an object or an array is expected
PrimNode == [NullNode EXCEPT !.k = "prim"]

\* an object with a type tag ("none": no tag) and nothing else, but for an
\* optional description
Leaf(type, desc) == [NullNode EXCEPT !.k = "obj", !.type = type, !.desc = desc]

P(key, ref) == [key |-> key, ref |-> ref]

\* an object with properties and a required entry that is absent ("none"),
\* an array of names ("array") or a number ("prim")
Obj(type, props, requiredK, required) ==
  [NullNode EXCEPT !.k = "obj", !.type = type, !.propsK = "obj", !.props = props,
                   !.requiredK = requiredK, !.required = required]

\* {type: 'array', items}
Arr(items) == [NullNode EXCEPT !.k = "obj", !.type = "array", !.items = items]

Schema(heap, root) == [heap |-> heap, root |-> root]

WellFormedSchemas ==
  {Schema(<<Leaf("object", FALSE)>>, 1),
   Schema(<<Obj("object", <<P("a", 2), P("b", 3), P("c", 4), P("d", 5)>>,
                "array", <<"a", "c">>),
            Leaf("string", TRUE), Leaf("number", FALSE), Leaf("integer", FALSE),
            Leaf("boolean", FALSE)>>, 1),
   Schema(<<Obj("object", <<P("a", 2), P("b", 3), P("c", 4), P("d", 5)>>,
                "none", <<>>),
            Arr(0), Leaf("date", FALSE), Leaf("none", FALSE),
            Leaf("object", FALSE)>>, 1),
   Schema(<<Obj("object", <<P("a", 2), P("b", 5)>>, "array", <<"b">>),
            Obj("object", <<P("c", 3), P("d", 4)>>, "array", <<"c">>),
            Leaf("string", FALSE), Leaf("number", TRUE),
            Arr(6), Obj("object", <<P("e", 7)>>, "array", <<>>),
            Leaf("boolean", FALSE)>>, 1),
   Schema(<<Obj("object", <<P("a", 2)>>, "array", <<"a">>),
            Obj("object", <<P("c", 3)>>, "none", <<>>),
            Arr(4), Obj("object", <<P("e", 5)>>, "array", <<"e">>),
            Leaf("string", FALSE)>>, 1),
   Schema(<<Leaf("string", FALSE)>>, 1),
   Schema(<<Arr(0)>>, 1),
   Schema(<<>>, 0)}

MalformedSchemas ==
  {Schema(<<NullNode>>, 1),
   Schema(<<PrimNode>>, 1),
   Schema(<<Obj("none", <<P("a", 2)>>, "array", <<"a">>), Leaf("string", FALSE)>>, 1),
   Schema(<<[Leaf("object", FALSE) EXCEPT !.propsK = "prim"]>>, 1),
   Schema(<<Obj("object", <<P("a", 2), P("b", 3)>>, "array", <<"a">>),
            Leaf("string", FALSE), NullNode>>, 1),
   Schema(<<Obj("object", <<P("a", 2)>>, "none", <<>>), PrimNode>>, 1),
   Schema(<<Obj("object", <<P("a", 2)>>, "prim", <<>>), Leaf("string", FALSE)>>, 1),
   Schema(<<[Leaf("object", FALSE) EXCEPT !.requiredK = "prim"]>>, 1),
   Schema(<<Obj("object", <<P("a", 2)>>, "array", <<"a">>),
            Obj("object", <<P("c", 3)>>, "none", <<>>), NullNode>>, 1),
   Schema(<<Obj("object", <<P("a", 2)>>, "array", <<"z">>), Leaf("string", FALSE)>>, 1)}

\* values that refer to themselves, and one nested deeper than MaxStack
DeepSchemas ==
  {Schema(<<Obj("object", <<P("a", 2)>>, "none", <<>>), Arr(2)>>, 1),
   Schema(<<Obj("object", <<P("a", 1)>>, "array", <<"a">>)>>, 1),
   Schema([i \in 1..(MaxStack + 1) |->
             IF i = 1 THEN Obj("object", <<P("a", 2)>>, "none", <<>>)
             ELSE IF i = MaxStack + 1 THEN Leaf("string", FALSE)
             ELSE Arr(i + 1)], 1)}

Schemas == WellFormedSchemas \cup MalformedSchemas \cup DeepSchemas

Threw(e) == [threw |-> e, out |-> <<>>]

Ret(v) == [threw |-> "no", out |-> v]

\* required.includes(key) on an array
Includes(required, key) == \E j \in 1..Len(required) : required[j] = key

\* the Zod field of one property: the switch on property.type
ZodType(type) ==
  CASE type = "string" -> "string"
    [] type = "number" -> "number"
    [] type = "integer" -> "int"
    [] type = "boolean" -> "boolean"
    [] type = "array" -> "array<any>"
    [] OTHER -> "string"

\* variant that makes every field optional
IsRequiredNever(n, key) == FALSE

\* inputSchema.required && Array.isArray(inputSchema.required) &&
\* inputSchema.required.includes(key)
IsRequired(n, key) == n.requiredK = "array" /\ Includes(n.required, key)

RECURSIVE ZodShape(_, _, _, _)
\* the loop over Object.entries(inputSchema.properties) from entry i
ZodShape(h, r, i, shape) ==
  IF i > Len(h[r].props) THEN Ret(shape)
  ELSE LET e == h[r].props[i]
           property == h[e.ref]
       IN IF property.k = "null" THEN Threw("TypeError")
          ELSE ZodShape(h, r, i + 1,
                 Append(shape, [key |-> e.key,
                                type |-> ZodType(property.type),
                                described |-> property.desc,
                                optional |-> ~IsRequired(h[r], e.key)]))

\* createZodSchemaFromMCP of MCPCLIAgent and of MCPManager: the shape of the
\* z.object it returns
CreateZodSchemaFromMCP(h, r) ==
  IF r = 0 \/ h[r].k # "obj" \/ h[r].type # "object" THEN Ret(<<>>)
  ELSE ZodShape(h, r, 1, <<>>)

\* variant of the property line that marks no field optional
TypePropAllRequired(key, isOptional, description, propType) ==
  description \o <<key, ": ">> \o propType

\* `${description}${propName}${isOptional ? "?" : ""}: ${propType}`
TypeProp(key, isOptional, description, propType) ==
  description \o <<key>> \o (IF isOptional THEN <<"?">> ELSE <<>>) \o <<": ">> \o propType

\* variant with the fallback of the Zod translation
FallbackTypeString == <<"string">>

\* the type of a schema that is no object or carries no known tag
FallbackType == <<"any">>

RECURSIVE SchemaToTypeScript(_, _, _)
RECURSIVE GenerateInputType(_, _, _)
RECURSIVE TypeProps(_, _, _, _, _)

\* the loop of generateInputType over Object.entries(properties) from entry
\* i; a required that is no array has no includes()
TypeProps(h, r, i, typeProps, frames) ==
  IF i > Len(h[r].props) THEN Ret(typeProps)
  ELSE LET e == h[r].props[i]
       IN IF h[r].requiredK = "prim" THEN Threw("TypeError")
          ELSE LET propType == SchemaToTypeScript(h, e.ref, frames - 1)
                   description == IF h[e.ref].desc
                                    THEN <<"\n  /** ", "description", " */\n  ">>
                                    ELSE <<>>
               IN IF propType.threw # "no" THEN propType
                  ELSE IF h[e.ref].k = "null" THEN Threw("TypeError")
                  ELSE TypeProps(h, r, i + 1,
                         Append(typeProps,
                                TypeProp(e.key, ~Includes(h[r].required, e.key),
                                         description, propType.out)),
                         frames)

\* MCPClient.generateInputType; frames is what is left of the call stack
GenerateInputType(h, r, frames) ==
  IF frames = 0 THEN Threw("RangeError")
  ELSE IF r = 0 \/ h[r].k # "obj" \/ h[r].type # "object" THEN Ret(FallbackType)
  ELSE LET tp == TypeProps(h, r, 1, <<>>, frames)
       IN IF tp.threw # "no" THEN tp
          ELSE IF Len(tp.out) = 0 THEN Ret(<<"{}">>)
          ELSE Ret(<<"{\n  ">> \o Join(tp.out, <<";\n  ">>) \o <<"\n}">>)

\* MCPClient.schemaToTypeScript
SchemaToTypeScript(h, r, frames) ==
  IF frames = 0 THEN Threw("RangeError")
  ELSE IF r = 0 \/ h[r].k # "obj" THEN Ret(FallbackType)
  ELSE CASE h[r].type = "string" -> Ret(<<"string">>)
         [] h[r].type \in {"number", "integer"} -> Ret(<<"number">>)
         [] h[r].type = "boolean" -> Ret(<<"boolean">>)
         [] h[r].type = "array" ->
              IF h[r].items # 0 /\ h[h[r].items].k # "null"
                THEN LET itemType == SchemaToTypeScript(h, h[r].items, frames - 1)
                     IN IF itemType.threw # "no" THEN itemType
                        ELSE Ret(itemType.out \o <<"[]">>)
                ELSE Ret(<<"any", "[]">>)
         [] h[r].type = "object" ->
              IF h[r].propsK # "none"
                THEN GenerateInputType(h, r, frames - 1)
                ELSE Ret(<<"Record<string, any>">>)
         [] OTHER -> Ret(FallbackType)

NoSchema == Schema(<<>>, 0)

NoSig == [by |-> "none", threw |-> "no", shape |-> <<>>, ts |-> <<>>]

\* createAISDKTools / createMCPTools:
\* const zodSchema = this.createZodSchemaFromMCP(mcpTool.inputSchema)
BuildInputSchema(s) ==
  /\ schemaIn' = s
  /\ LET z == CreateZodSchemaFromMCP(s.heap, s.root)
     IN sigOut' = [by |-> "createZodSchemaFromMCP", threw |-> z.threw,
                   shape |-> z.out, ts |-> <<>>]
  /\ UNCHANGED <<regPc, mcpServers, availableTools, offered>>
  /\ ToolsFrame

\* generateTypeDefinitions: const inputType = this.generateInputType(tool)
GenerateTypeDefinition(s) ==
  /\ schemaIn' = s
  /\ LET t == GenerateInputType(s.heap, s.root, MaxStack)
     IN sigOut' = [by |-> "generateInputType", threw |-> t.threw,
                   shape |-> <<>>, ts |-> t.out]
  /\ UNCHANGED <<regPc, mcpServers, availableTools, offered>>
  /\ ToolsFrame

ToolsInit ==
  /\ regPc = "constructed"
  /\ mcpServers = [i \in 1..2 |-> ServerConfig(i)]
  /\ availableTools = <<>>
  /\ offered = [by |-> "none", tools |-> NoTools]
  /\ schemaIn = NoSchema
  /\ sigOut = NoSig

ToolsRest == ToolsInit

ToolsNext ==
  \/ \E c1 \in BOOLEAN, c2 \in BOOLEAN : AgentInitialize(c1, c2)
  \/ \E a1 \in ListAnswers, a2 \in ListAnswers : LoadAvailableTools(a1, a2)
  \/ CreateAISDKTools
  \/ CreateAllTools
  \/ \E s \in Schemas : BuildInputSchema(s)
  \/ \E s \in Schemas : GenerateTypeDefinition(s)

(***************************************************************************)
(* ChatbotMCPServer: the tools/call handler, and the client's execute      *)
(* wrapper around it                                                       *)
(***************************************************************************)
\* requests one server run answers before the exploration stops
MaxServed == 2

\* the names of the switch of the handler
ServerTools == {"getCurrentTime", "calculate", "getSystemInfo", "getWeather", "listFiles"}

\* names a request may carry
RequestNames == ServerTools \cup {"deleteFiles", "get_time"}

Undefined == "undefined"

\* request.params.arguments: absent, or an object; a field it does not
\* carry reads as undefined
NoArgs == [given |-> FALSE, expression |-> Undefined, city |-> Undefined,
           path |-> Undefined]

EmptyArgs == [NoArgs EXCEPT !.given = TRUE]

ArgValues ==
  {NoArgs, EmptyArgs,
   [EmptyArgs EXCEPT !.expression = "2 + 2"],
   [EmptyArgs EXCEPT !.expression = "2 +"],
   [EmptyArgs EXCEPT !.expression = "rm -rf"],
   [EmptyArgs EXCEPT !.city = "Paris"],
   [EmptyArgs EXCEPT !.path = "."],
   [EmptyArgs EXCEPT !.path = "/missing"]}

\* the required list each tool publishes in its inputSchema
RequiredOf(name) ==
  CASE name = "calculate" -> {"expression"}
    [] name = "getWeather" -> {"city"}
    [] OTHER -> {}

\* /^[0-9+\-*/().\s]+$/.test(expression); undefined is tested as 'undefined'
ValidCharacters(expression) == expression \in {"2 + 2", "2 +"}

\* handleCalculate: its own try/catch turns every failure into a string
HandleCalculate(expression) ==
  IF ~ValidCharacters(expression)
    THEN <<"Error calculating \"", expression, "\": ", "Invalid characters in expression">>
    ELSE IF expression = "2 + 2"
      THEN <<expression, " = ", "4">>
      ELSE <<"Error calculating \"", expression, "\": ", "Unexpected token '}'">>

\* handleGetWeather
HandleGetWeather(city) ==
  <<"Weather information for ", city, " is not implemented yet.">>

\* handleListFiles(path = '.'): readdir fails for a directory that is missing
HandleListFiles(path) ==
  LET p == IF path = Undefined THEN "." ELSE path
  IN IF p = "."
       THEN <<"Files in ", p, ":\n", "  - a.txt">>
       ELSE <<"Error listing files in \"", p, "\": ", "ENOENT">>

Text(t, impl) ==
  [threw |-> "no", content |-> <<TextChunk(t)>>, isError |-> FALSE, invoked |-> impl]

Ran(impl, arg) == <<[impl |-> impl, arg |-> arg]>>

\* the switch of the handler for a registered name
Registered(name, args) ==
  CASE name = "getCurrentTime" -> Text(<<"11/6/2026, 2:00:00 AM">>, <<>>)
    [] name = "calculate" ->
         Text(HandleCalculate(args.expression), Ran("handleCalculate", args.expression))
    [] name = "getSystemInfo" ->
         Text(<<"{platform, architecture, nodeVersion, uptime, freeMemory, totalMemory}">>,
              Ran("handleGetSystemInfo", Undefined))
    [] name = "getWeather" ->
         Text(HandleGetWeather(args.city), Ran("handleGetWeather", args.city))
    [] OTHER ->
         Text(HandleListFiles(args.path), Ran("handleListFiles", args.path))

\* variant whose default case lets the Error leave the handler
CallToolHandlerNoCatch(name, args) ==
  IF name \in ServerTools THEN Registered(name, args)
  ELSE [threw |-> "error", content |-> <<>>, isError |-> FALSE, invoked |-> <<>>]

\* the CallTool request handler: the switch inside try, the catch building
\*   Error executing ${name}: ${error.message}   with isError: true
CallToolHandler(name, args) ==
  IF name \in ServerTools THEN Registered(name, args)
  ELSE [threw |-> "no",
        content |-> <<TextChunk(<<"Error executing ", name, ": ", "Unknown tool: ", name>>)>>,
        isError |-> TRUE, invoked |-> <<>>]

ServerFrame == UNCHANGED <<clientVars, chatVars, finVars, toolVars>>

\* the execute wrapper of the client calls the tool: the server's handler
\* answers and the wrapper hands its string to the model
ServerCallTool(name, args) ==
  /\ served < MaxServed
  /\ LET res == CallToolHandler(name, args)
     IN /\ result' = [threw |-> res.threw, content |-> res.content,
                      isError |-> res.isError]
        /\ invoked' = res.invoked
        /\ delivered' = ExecuteMCP(name, res)
  /\ request' = [name |-> name, args |-> args]
  /\ served' = served + 1
  /\ ServerFrame

ServerInit ==
  /\ request = [name |-> "", args |-> NoArgs]
  /\ result = [threw |-> "no", content |-> <<>>, isError |-> FALSE]
  /\ invoked = <<>>
  /\ delivered = [threw |-> FALSE, out |-> <<>>]
  /\ served = 0

ServerRest == ServerInit

ServerNext == \E name \in RequestNames, args \in ArgValues : ServerCallTool(name, args)

InitTools == ToolsInit /\ ClientRest /\ ChatRest /\ FinRest /\ ServerRest

SpecTools == InitTools /\ [][ToolsNext]_vars

InitServer == ServerInit /\ ClientRest /\ ChatRest /\ FinRest /\ ToolsRest

SpecServer == InitServer /\ [][ServerNext]_vars


InitChat == ChatInit /\ ClientRest /\ FinRest /\ ToolsRest /\ ServerRest

SpecChat == InitChat /\ [][ChatNext]_vars

InitChatOverlap == ChatOverlapInit /\ ClientRest /\ FinRest /\ ToolsRest /\ ServerRest

SpecChatOverlap == InitChatOverlap /\ [][ChatOverlapNext]_vars

InitFin == FinInit /\ ClientRest /\ ToolsRest /\ ServerRest

SpecFin == InitFin /\ [][FinNext]_vars

InitClient == ClientInit /\ ChatRest /\ FinRest /\ ToolsRest /\ ServerRest

SpecClient == InitClient /\ [][ClientNext]_vars

\* listTools() called while another operation of the same client may be
\* awaiting the server: nothing in MCPClient serializes its callers
ListToolsOverlapping(c) ==
  /\ Quiet(c) /\ Room
  /\ EnsureInitThenSend(c, "listTools", "", "tools/list")
  /\ UNCHANGED <<isInitialized, tools, api>>
  /\ ClientFrame

\* callTool(n, ...) called likewise
CallToolOverlapping(c, n) ==
  /\ Quiet(c) /\ Room
  /\ EnsureInitThenSend(c, "callTool", n, "tools/call")
  /\ UNCHANGED <<isInitialized, tools, api>>
  /\ ClientFrame

\* one client, two callers (two promises started without awaiting the first)
ClientInitTwoCallers ==
  /\ isInitialized = FALSE
  /\ requestId = 0
  /\ tools = [n \in ToolNames |-> Absent]
  /\ sent = <<>>
  /\ call = [c \in {1, 2} |-> Idle]
  /\ api = <<>>

ClientOverlapNext ==
  \/ \E c \in DOMAIN call : ListToolsOverlapping(c)
  \/ \E c \in DOMAIN call, n \in ToolNames : CallToolOverlapping(c, n)
  \/ \E c \in DOMAIN call, o \in Outcomes : InitResponse(c, o)
  \/ \E c \in DOMAIN call, o \in Outcomes : NotifResponse(c, o)
  \/ \E c \in DOMAIN call, o \in Outcomes, l \in Listings, r \in ToolResults :
       Response(c, o, l, r)

InitClientOverlap ==
  ClientInitTwoCallers /\ ChatRest /\ FinRest /\ ToolsRest /\ ServerRest

SpecClientOverlap == InitClientOverlap /\ [][ClientOverlapNext]_vars

\* MCPClient talking to a provider that may also stay silent
ClientLiveNext ==
  \/ \E c \in DOMAIN call : Initialize(c)
  \/ \E c \in DOMAIN call : ListTools(c)
  \/ \E c \in DOMAIN call, n \in ToolNames : CallTool(c, n)
  \/ \E c \in DOMAIN call : GenerateTypeScriptAPI(c)
  \/ \E c \in DOMAIN call, f \in FunctionNames : ApiFn(c, f)
  \/ \E c \in DOMAIN call, o \in Outcomes : InitResponse(c, o)
  \/ \E c \in DOMAIN call, o \in Outcomes : NotifResponse(c, o)
  \/ \E c \in DOMAIN call, o \in Outcomes, l \in Listings, r \in ToolResults :
       Response(c, o, l, r)
  \/ \E c \in DOMAIN call : ProviderSilent(c)
  \/ Close

InitClientLive == ClientInit /\ ChatRest /\ FinRest /\ ToolsRest /\ ServerRest

\* the event loop runs whatever continuation is runnable
SpecClientLive ==
  InitClientLive /\ [][ClientLiveNext]_vars /\ WF_vars(ClientLiveNext)

(***************************************************************************)
(* Properties of MCPClient                                                 *)
(***************************************************************************)
CountMethod(log, m) == Cardinality({i \in 1..Len(log) : log[i].method = m})

\* C1: no tools/list or tools/call request is on the wire with the session's
\* isInitialized flag false at the moment it is sent; listTools and callTool
\* run the handshake first, also after close().
C1_NoRequestWhileUninitialized ==
  \A i \in 1..Len(sent) :
    sent[i].method \in {"tools/list", "tools/call"} => sent[i].init

\* a tool call that went out after a close(): the handshake was run twice
C1_Witness ==
  /\ CountMethod(sent, "initialize") = 2
  /\ Len(sent) = 6
  /\ sent[3].method = "tools/list" /\ ~sent[4].init
  /\ sent[6].method = "tools/call" /\ sent[6].init

\* C2: while the session is initialized no further initialize request and no
\* further notifications/initialized notification is sent.
C2_InitializeIdempotent ==
  [][isInitialized =>
       /\ CountMethod(sent', "initialize") = CountMethod(sent, "initialize")
       /\ CountMethod(sent', "notifications/initialized")
            = CountMethod(sent, "notifications/initialized")]_vars

FailedToolCall(c) ==
  /\ call[c].op \in {"callTool", "apiFn"}
  /\ call[c].pc = "done"
  /\ call[c].fail # "none"

Last(q) == q[Len(q)]

McpBot == bot \in {"mcpcli", "finance"}

\* the first response asked for tools and said nothing
ToolsNoText == Len(r1.toolCalls) > 0 /\ \A i \in 1..Len(r1.text) : r1.text[i] \in {" ", "\n"}

\* the response reached handleUserInput (no wrapper aborted generateText)
Answered1 == pcT # "query1" /\ cause # "tool" /\ (pcT = "failed" => queries = 2)

\* C4: the execute wrappers never throw: a provider call or worker run that
\* fails comes back as an error description, and no user turn fails because
\* of a tool.
C4_WrappersNeverThrow ==
  /\ McpBot =>
       \A i \in 1..Len(outs) :
         /\ ~outs[i].threw
         /\ provs[i].threw # "no" =>
              /\ Len(outs[i].out) = 4
              /\ outs[i].out[1] = "Error executing "
              /\ outs[i].out[2] = r1.toolCalls[i].toolName
  /\ ~wrapped.result.threw
  /\ wrapped.input.threw =>
       wrapped.result.out = <<"{error: ">> \o wrapped.input.val \o <<", success: false}">>
  /\ cause # "tool"

\* a provider call threw during a turn and the turn still completed
C4_Witness ==
  /\ bot = "mcpcli" /\ pcT = "done" /\ cause = "none"
  /\ \E i \in 1..Len(provs) : provs[i].threw = "error"
  /\ wrapped.input.threw

\* C5 as stated: after a first response with tool calls and no text, exactly
\* one further query is made with the tool results appended, and the text of
\* the second response is what is shown and what is appended as final turn.
C5_SecondResponseTextShown ==
  (McpBot /\ pcT = "done" /\ ToolsNoText) =>
    /\ queries = 2
    /\ Last(ctx.messages).content[1] = ToolResultsHead
    /\ shown = r2.text
    /\ Last(messages) = Msg("assistant", r2.text)

\* C5 amended: ... the final assistant turn appended is the text of the
\* second response, and what is shown is that text, or the placeholder
\* 'No response generated' when that text is empty.
C5_SecondResponseShownOrPlaceholder ==
  (McpBot /\ pcT = "done" /\ ToolsNoText) =>
    /\ queries = 2
    /\ Last(ctx.messages).content[1] = ToolResultsHead
    /\ shown = (IF r2.text = <<>> THEN <<"No response generated">> ELSE r2.text)
    /\ Last(messages) = Msg("assistant", r2.text)

\* a whitespace-only first response with a tool call, answered in round two
C5_Witness ==
  /\ bot = "finance" /\ pcT = "done"
  /\ r1.text = <<" ">> /\ Len(r1.toolCalls) = 1
  /\ r2.text = <<"It is noon">> /\ shown = <<"It is noon">>

\* the second response again asks for tools and says nothing
SecondToolsNoText ==
  /\ pcT = "done" /\ queries = 2
  /\ Len(r2.toolCalls) > 0 /\ \A i \in 1..Len(r2.text) : r2.text[i] \in {" ", "\n"}

\* C6 as stated: at most two model queries per user turn, and when the second
\* response has tool calls and no text the turn ends with the degraded
\* synthetic answer as the final assistant turn.
C6_DegradedAnswerIsFinalTurn ==
  /\ queries <= 2
  /\ (McpBot /\ SecondToolsNoText) =>
       Last(messages) = Msg("assistant", <<"No response generated">>)

\* C6 amended: at most two model queries per user turn; after the second
\* response the turn ends without another query, the final assistant turn
\* is the second response's own (empty or blank) text, and the synthetic
\* 'No response generated' is only printed, when that text is empty.
C6_TwoQueriesThenEnd ==
  /\ queries <= 2
  /\ (pcT = "query2") => queries = 2
  /\ (McpBot /\ SecondToolsNoText) =>
       /\ Last(messages) = Msg("assistant", r2.text)
       /\ Last(appended) = Msg("assistant", r2.text)
       /\ r2.text = <<>> => shown = <<"No response generated">>
       /\ r2.text # <<>> => shown = r2.text

\* both rounds asked for tools without text; the turn is over
C6_Witness ==
  /\ bot = "mcpcli" /\ SecondToolsNoText /\ ToolsNoText
  /\ r2.text = <<>> /\ shown = <<"No response generated">>

\* C7: after a failed model query the transcript is what it was before the
\* user turn began.
C7_FailedTurnRestoresTranscript ==
  (pcT = "failed" /\ cause = "model") => messages = before

IsToolTurn(m) == m.role = "user" /\ m.content[1] = ToolResultsHead

ToolTurnCount(q) == Cardinality({i \in 1..Len(q) : IsToolTurn(q[i])})

ExpectedLine(i) ==
  <<r1.toolCalls[i].toolName, " returned: ">>
    \o (IF outs[i].out = <<>> THEN <<"No result">> ELSE outs[i].out)

RECURSIVE ExpectedLines(_)
ExpectedLines(i) ==
  IF i > Len(r1.toolCalls) THEN <<>>
  ELSE ExpectedLine(i) \o (IF i < Len(r1.toolCalls) THEN <<"\n">> ELSE <<>>)
         \o ExpectedLines(i + 1)

RECURSIVE Verbatim(_)
\* the payload of a result, chunk after chunk
Verbatim(content) ==
  IF content = <<>> THEN <<>>
  ELSE (IF Head(content).type = "text" THEN Head(content).text ELSE <<"[image]">>)
         \o Verbatim(Tail(content))

\* what the transcript carries for intent i: the text after ' returned: '
CarriedText(i) == SubSeq(ExpectedLine(i), 3, Len(ExpectedLine(i)))

\* C9: what a provider returned reaches the transcript unchanged: the same
\* payload, nothing dropped, joined or replaced by a placeholder, and the
\* error flag kept (the wrapper hands back a bare string, which carries no
\* error flag).
C9_ResultCarriedUnchanged ==
  (McpBot /\ Answered1 /\ ToolsNoText) =>
    \A i \in 1..Len(provs) :
      provs[i].threw = "no" =>
        /\ CarriedText(i) = Verbatim(provs[i].content)
        /\ ~provs[i].isError

\* C11 as stated: compaction happens only between completed user turns: no
\* message is evicted by an append made while a user turn is in progress
\* (the intermediate assistant turn, the tool-result turn, the final
\* assistant turn): such an append leaves every earlier message in place.
C11_NoEvictionMidTurn ==
  [][(bot = "finance" /\ pcT \in {"query1", "query2"} /\ pcT' \in {"query2", "done"}) =>
       /\ Len(messages') >= Len(messages)
       /\ \A i \in 1..Len(messages) : messages'[i] = messages[i]]_vars

\* the logical history of the current user turn
TurnHistory == before \o appended

Min(a, b) == IF a <= b THEN a ELSE b

\* C11 amended: every append, also one made while a user turn is in progress,
\* compacts the transcript as soon as it holds more than 10 messages, keeping
\* the last 8; what is evicted is always older than the current user turn:
\* the transcript is the tail of the logical history, at least 8 long when
\* the history is, at most 10 long, and holds every turn appended so far in
\* the current user turn.
C11_EvictionSparesCurrentTurn ==
  (bot = "finance" /\ pcT \in {"query1", "query2", "done"}) =>
    /\ Len(messages) <= CompactThreshold
    /\ Len(messages) >= Min(Len(TurnHistory), KeepRecent)
    /\ messages = SliceLast(TurnHistory, Len(messages))
    /\ Len(appended) <= Len(messages)
    /\ SliceLast(messages, Len(appended)) = appended

\* the append of the tool-result turn compacted a transcript that held 8
\* messages when the user turn began
C11_Witness ==
  /\ bot = "finance" /\ pcT = "query2"
  /\ Len(before) = KeepRecent /\ Len(messages) = KeepRecent
  /\ Len(appended) = 3 /\ messages[1] = before[4]

\* C12: each tool-result turn is immediately preceded, in the logical history
\* and in the transcript, by the assistant turn of the model response that
\* emitted its tool calls: the turn with that response's text, of a response
\* that carried the calls the tool-result turn lists.
C12_ToolTurnFollowsItsAssistantTurn ==
  /\ \A i \in 1..Len(TurnHistory) :
       IsToolTurn(TurnHistory[i]) =>
         /\ i > 1
         /\ TurnHistory[i - 1] = Msg("assistant", r1.text)
         /\ Len(r1.toolCalls) > 0
         /\ TurnHistory[i] = ToolResultsMessage(bot, r1)
  /\ \A i \in 2..Len(messages) :
       IsToolTurn(messages[i]) => messages[i - 1] = Msg("assistant", r1.text)

\* a tool-result turn is in the transcript after a compaction took place in
\* the same user turn
C12_Witness ==
  /\ bot = "finance" /\ pcT = "done" /\ Len(before) = CompactThreshold
  /\ \E i \in 2..Len(messages) : IsToolTurn(messages[i])
  /\ Len(r1.toolCalls) = 2

(***************************************************************************)
(* Properties of FinanceBotAgent.addMessage                                *)
(***************************************************************************)
RECURSIVE Contains(_, _)
\* the token sequence part occurs in whole
Contains(whole, part) ==
  IF Len(whole) < Len(part) THEN FALSE
  ELSE SubSeq(whole, 1, Len(part)) = part \/ Contains(Tail(whole), part)

\* C10: after a compaction the last 8 messages are those of before, in
\* order, and the older ones are replaced by one summary turn that is part
\* of the context of the next query.
C10_CompactionKeepsRecentAndSummary ==
  /\ (lastOp = "add" /\ Len(pushed) > CompactThreshold) =>
       SliceLast(messages, KeepRecent) = SliceLast(pushed, KeepRecent)
  /\ (lastOp = "query" /\ conversationContext # <<>>) =>
       \/ \E i \in 1..Len(ctx.messages) : ctx.messages[i].content = conversationContext
       \/ Contains(ctx.system, conversationContext)

(***************************************************************************)
(* Properties of the tool set                                              *)
(***************************************************************************)
\* the position of the last descriptor named n in list l, 0 when there is none
LastIndex(l, n) ==
  LET S == {i \in 1..Len(l) : l[i].name = n}
  IN IF S = {} THEN 0 ELSE CHOOSE i \in S : \A j \in S : j <= i

\* C13: a name registered more than once resolves to the most recently
\* registered descriptor and handler: in the tool set offered to the model
\* the last entry of availableTools with that name (a later server, or a
\* later descriptor of the same server) replaces the earlier ones and, in
\* createAllTools, an MCP tool replaces the built-in tool of the same name;
\* MCPClient's cache keeps the last descriptor listed for a name.
C13_LastRegistrationWins ==
  /\ offered.by # "none" =>
       \A n \in OfferNames :
         LET i == LastIndex(availableTools, n)
         IN IF i > 0
              THEN offered.tools[n] = [origin |-> "mcp", ver |-> availableTools[i].ver,
                                       serverName |-> availableTools[i].serverName]
              ELSE offered.tools[n].origin =
                     (IF offered.by = "createAllTools" /\ n \in BuiltinNames
                        THEN "builtin" ELSE "absent")
  /\ \A l \in Listings : \A n \in ToolNames :
       CacheTools([m \in ToolNames |-> Absent], l)[n]
         = (IF LastIndex(l, n) > 0 THEN l[LastIndex(l, n)] ELSE Absent)

\* two servers list the name of a built-in tool; the finance tool set
\* resolves it to the second server's descriptor
C13_Witness ==
  /\ offered.by = "createAllTools"
  /\ Len(availableTools) = 3
  /\ availableTools[1].name = "calculateCompoundInterest"
  /\ availableTools[2].name = "calculateCompoundInterest"
  /\ availableTools[2].serverName = "s2"
  /\ offered.tools["calculateCompoundInterest"].serverName = "s2"
  /\ offered.tools["calculateLoanPayment"].origin = "builtin"

(***************************************************************************)
(* Properties of ChatbotMCPServer's call handler                           *)
(***************************************************************************)
\* the request leaves out a field the tool's inputSchema lists as required
OmitsRequired ==
  /\ served > 0
  /\ \E f \in RequiredOf(request.name) :
       \/ ~request.args.given
       \/ (f = "expression" /\ request.args.expression = Undefined)
       \/ (f = "city" /\ request.args.city = Undefined)

\* C14: an invocation whose arguments omit a required field yields a result
\* with isError true, and the tool's implementation is not invoked.
C14_MissingRequiredIsErrorWithoutInvocation ==
  OmitsRequired => (result.isError /\ invoked = <<>>)

\* the text the handler's catch block builds for an unknown name
UnknownToolText(name) == <<"Error executing ", name, ": ", "Unknown tool: ", name>>

\* C15: a call naming a tool the server does not register crashes neither
\* the server nor the dispatch: the handler returns (it does not throw) a
\* result with isError true whose text describes the error, no
\* implementation runs, and the client's execute wrapper returns that text
\* to the model instead of throwing.
C15_UnknownToolIsErrorResult ==
  (served > 0 /\ request.name \notin ServerTools) =>
    /\ result.threw = "no"
    /\ result.isError
    /\ result.content = <<[type |-> "text", text |-> UnknownToolText(request.name)]>>
    /\ invoked = <<>>
    /\ ~delivered.threw
    /\ delivered.out = UnknownToolText(request.name)

\* an unknown name was requested, without arguments, as the second request
\* of a run
C15_Witness ==
  /\ served = 2
  /\ request.name = "deleteFiles" /\ ~request.args.given
  /\ result.isError /\ delivered.out[1] = "Error executing "

(***************************************************************************)
(* Properties of the schema translation                                    *)
(***************************************************************************)
Translated == sigOut.by # "none"

ByZod == sigOut.by = "createZodSchemaFromMCP"

ByTs == sigOut.by = "generateInputType"

\* C16: schema translation never raises: for every input schema value, the
\* malformed ones included (a null or non-object entry in properties, a
\* required that is no array, properties that is no object, a missing type
\* tag), both translators return a signature.
C16_TranslationNeverThrows ==
  (Translated /\ schemaIn \in WellFormedSchemas \cup MalformedSchemas) =>
    sigOut.threw = "no"

\* C17: the recursion of schemaToTypeScript and generateInputType through
\* nested object and array-item nodes is depth-bounded: whatever the depth
\* of the schema, and also when it refers to itself, the translation
\* returns without exhausting the call stack.
C17_RecursionDepthBounded ==
  ByTs => sigOut.threw # "RangeError"

\* the nodes a value refers to as property schemas or as item schema
Kids(h, id) ==
  IF h[id].k # "obj" THEN {}
  ELSE IF h[id].type = "object"
    THEN {h[id].props[i].ref : i \in 1..Len(h[id].props)}
  ELSE IF h[id].type = "array" /\ h[id].items # 0 THEN {h[id].items}
  ELSE {}

RECURSIVE Closure(_, _, _)
Closure(h, todo, seen) ==
  IF todo = {} THEN seen
  ELSE LET id == CHOOSE x \in todo : TRUE
       IN Closure(h, (todo \ {id}) \cup (Kids(h, id) \ (seen \cup {id})), seen \cup {id})

IsObjectSchema(h, id) == id # 0 /\ h[id].k = "obj" /\ h[id].type = "object"

\* the object schemas of a value: its root and the object schemas nested in
\* it as property schemas or array-item schemas, at any depth
ObjectSchemas(s) ==
  IF ~IsObjectSchema(s.heap, s.root) THEN {}
  ELSE {id \in Closure(s.heap, {s.root}, {}) : IsObjectSchema(s.heap, id)}

\* the signature shows field key as optional (opt) or as required (~opt)
ZodHas(key, opt) ==
  \E i \in 1..Len(sigOut.shape) :
    sigOut.shape[i].key = key /\ sigOut.shape[i].optional = opt

TsHas(key, opt) ==
  Contains(sigOut.ts, IF opt THEN <<key, "?", ": ">> ELSE <<key, ": ">>)
    /\ ~Contains(sigOut.ts, IF opt THEN <<key, ": ">> ELSE <<key, "?", ": ">>)

\* field key of object schema id is shown required exactly when id's
\* required list names it
FieldFollowsRequired(id, i) ==
  LET n == schemaIn.heap[id]
      key == n.props[i].key
      opt == ~(n.requiredK = "array" /\ \E j \in 1..Len(n.required) : n.required[j] = key)
  IN IF ByZod THEN ZodHas(key, opt) ELSE TsHas(key, opt)

TagOf(id) == IF schemaIn.heap[id].k = "obj" THEN schemaIn.heap[id].type ELSE "none"

\* the type the signature gives to field i of the root
ZodTypeShown(i) == sigOut.shape[i].type

\* the type a tag stands for in a Zod signature when it keeps its own type
\* and every other tag falls back to string
OwnZodType(tag) ==
  CASE tag = "string" -> "string"
    [] tag = "number" -> "number"
    [] tag = "integer" -> "int"
    [] tag = "boolean" -> "boolean"
    [] tag = "array" -> "array<any>"
    [] tag = "object" -> "object"
    [] OTHER -> "string"

LeafTs(tag) ==
  CASE tag = "string" -> <<"string">>
    [] tag \in {"number", "integer"} -> <<"number">>
    [] tag = "boolean" -> <<"boolean">>
    [] tag = "array" -> <<"any", "[]">>
    [] tag = "object" -> <<"Record<string, any>">>
    [] OTHER -> <<"any">>

IsLeaf(id) ==
  schemaIn.heap[id].k # "obj"
    \/ (schemaIn.heap[id].propsK = "none" /\ schemaIn.heap[id].items = 0)

Callers == {1}

InFlight(c) == call[c].pc \notin {"idle", "done"}

\* C20: every handshake and every callTool completes after a bounded wait
\* even if the provider never responds: an operation that has posted a
\* request always comes to its end, with a result or an error.
C20_EveryOperationCompletes ==
  \A c \in Callers : InFlight(c) ~> (call[c].pc = "done")

(***************************************************************************)
(* Properties of the MCPClient handshake                                   *)
(***************************************************************************)
HandshakePosted(log) ==
  \E i, j \in 1..Len(log) :
    i < j /\ log[i].method = "initialize" /\ log[j].method = "notifications/initialized"

\* C22: when the initialize request or the notifications/initialized
\* notification fails, the operation raises to its caller and leaves
\* isInitialized as it was; isInitialized turns true only when the
\* notification's fetch has settled after both were posted; and listTools /
\* callTool on an uninitialized client start with the initialize request.
C22_FailedHandshakeStaysUninitialized ==
  [][\A c \in Callers :
       /\ (call[c].pc \in {"awaitInitResp", "awaitNotif"}
             /\ call'[c].pc = "done" /\ call'[c].fail # "none")
            => (call'[c].out = "threw" /\ isInitialized' = isInitialized)
       /\ (~isInitialized /\ isInitialized')
            => (call[c].pc = "awaitNotif" /\ call'[c].fail = "none"
                  /\ HandshakePosted(sent))
       /\ (Quiet(c) /\ ~Quiet(c)' /\ ~isInitialized
             /\ call'[c].op \in {"listTools", "callTool"})
            => (call'[c].pc = "awaitInitResp"
                  /\ sent' = Append(sent, [method |-> "initialize", init |-> FALSE]))
    ]_vars

\* callTool on an uninitialized client whose notification could not be
\* delivered: it has thrown and the client is still uninitialized
C22_Witness ==
  /\ call[1].op = "callTool" /\ call[1].pc = "done" /\ call[1].out = "threw"
  /\ call[1].fail = "reject"
  /\ sent[Len(sent)].method = "notifications/initialized"
  /\ ~isInitialized

(***************************************************************************)
(* Properties of the FinanceBotAgent transcript bound                      *)
(***************************************************************************)
\* C26: after any sequence of addMessage and clearHistory calls the
\* transcript holds at most 10 messages: an append that makes it 11 long
\* cuts it to exactly the last 8 of those 11, and an append that leaves it
\* at 10 or fewer removes nothing.
C26_TranscriptAtMostTen ==
  /\ Len(messages) <= CompactThreshold
  /\ lastOp = "add" =>
       /\ Len(pushed) <= CompactThreshold + 1
       /\ Len(pushed) = CompactThreshold + 1 =>
            messages = SubSeq(pushed, Len(pushed) - KeepRecent + 1, Len(pushed))
       /\ Len(pushed) <= CompactThreshold => messages = pushed
  /\ lastOp = "clear" => messages = <<>>

\* the eleventh message has just been appended and the transcript cut
C26_Witness ==
  lastOp = "add" /\ Len(pushed) = CompactThreshold + 1 /\ Len(messages) = KeepRecent

(***************************************************************************)
(* Properties of the MCPClient tool cache                                  *)
(***************************************************************************)
\* what getTool(n) returns
GetTool(cache, n) == cache[n]

\* the cache that holds the tools of listing l and nothing else
CacheOf(l) == CacheTools([n \in ToolNames |-> Absent], l)

\* C29: after every successful listTools the cache read by getTool holds
\* exactly the tools of the listing just returned (a tool no longer listed
\* is no longer returned by getTool), and after close() getTool returns
\* nothing for every name.
C29_CacheIsLatestListing ==
  [][\A c \in Callers :
       /\ (call[c].op = "listTools" /\ call[c].pc = "awaitResp"
             /\ call'[c].out = "returned")
            => \A n \in ToolNames :
                 GetTool(tools', n) = GetTool(CacheOf(call'[c].val.content), n)
       /\ (isInitialized /\ ~isInitialized')
            => \A n \in ToolNames : GetTool(tools', n) = Absent
    ]_vars

(***************************************************************************)
(* Properties of the generated API                                         *)
(***************************************************************************)
\* the tool names the generated API can still call
Reachable(obj) == {obj[f] : f \in DOMAIN obj}

\* C30: generateTypeScriptAPI exposes one callable function per listed
\* tool: every tool of the listing it has just cached is called by some
\* function of the returned API, and each function is the camelCase name of
\* the tool it calls.
C30_EveryListedToolReachable ==
  [][\A c \in Callers :
       (call[c].op = "generateTypeScriptAPI" /\ call[c].pc = "awaitResp"
          /\ call'[c].out = "returned")
         => /\ \A n \in ToolNames : tools'[n] # tools[n] => n \in Reachable(api')
            /\ \A f \in DOMAIN api' : f = ToCamelCase(Chars(api'[f]))
    ]_vars

(***************************************************************************)
(* Properties of overlapping MCPClient operations                          *)
(***************************************************************************)
InHandshake(c) == call[c].pc \in {"awaitInitResp", "awaitNotif"}

\* C28: when listTools / callTool are invoked on an uninitialized client
\* while another call's handshake is still awaiting the server, the
\* handshake is performed only once: no call posts an initialize request
\* while another call's handshake is in progress.
C28_OneHandshakeForOverlappingCalls ==
  [][\A c \in DOMAIN call :
       (Quiet(c) /\ call'[c].pc = "awaitInitResp")
         => \A d \in DOMAIN call \ {c} : ~InHandshake(d)
    ]_vars

(***************************************************************************)
(* Properties of the transcript after a user turn                          *)
(***************************************************************************)
\* the model's response to the first query has been received
GotResponse == pcT \in {"done", "failed"} /\ cause \notin {"model", "tool"}

\* C23: CLIChatbot.handleUserInput (the week-4 CLI) accepts every model
\* response, also one with empty text and no tool results: the turn
\* completes with the assistant message appended after the user message and
\* neither message is removed.
C23_Cli4AcceptsEveryResponse ==
  (bot = "cli4" /\ GotResponse) =>
    /\ pcT = "done"
    /\ Len(appended) = 2
    /\ appended[1].role = "user" /\ appended[2].role = "assistant"
    /\ messages = before \o appended

\* user and assistant roles alternate in q, starting with user and ending
\* with assistant
Alternates(q) ==
  /\ \A i \in 1..Len(q) : q[i].role = (IF i % 2 = 1 THEN "user" ELSE "assistant")
  /\ Len(q) % 2 = 0

\* no append of the turn has cut the transcript
NoCompaction == bot # "finance" \/ Len(before) + Len(appended) <= CompactThreshold

\* C27: between user turns handled one after another (no compaction) the
\* transcript alternates user and assistant roles, starting with user and
\* ending with an assistant message: no two consecutive user messages and
\* no user message left without a following assistant message.
C27_TranscriptAlternates ==
  (TurnOver /\ NoCompaction) => Alternates(messages)

(***************************************************************************)
(* Properties of the control inputs                                        *)
(***************************************************************************)
\* nothing is appended, no model query is issued, the tool set stays
NoTurnStarted ==
  /\ messages' = messages /\ conversationContext' = conversationContext
  /\ asked' = asked /\ ctx' = ctx
  /\ UNCHANGED toolVars

\* the transcript and the stored summary are emptied, nothing else changes
OnlyHistoryCleared ==
  /\ messages' = <<>> /\ conversationContext' = <<>>
  /\ asked' = asked /\ ctx' = ctx
  /\ UNCHANGED <<bot, wrapped, toolVars, clientVars, serverVars>>

C25_Controls(b) ==
  IF b = "finance" THEN {<<"status">>, <<"help">>, <<"profile">>, <<>>}
  ELSE IF b = "mcpcli" THEN {<<"status">>, <<>>}
  ELSE {<<>>}

Provided(i) == mcpServers[i].client /\ mcpServers[i].listed = "ok"

\* the tools server i listed, each tagged with the server's name
FromServer(i) ==
  IF Provided(i)
    THEN [k \in 1..Len(mcpServers[i].tools) |->
            [name |-> mcpServers[i].tools[k].name, ver |-> mcpServers[i].tools[k].ver,
             serverName |-> Servers[i]]]
    ELSE <<>>

\* C24: initialize() never raises; a provider whose connection or tool
\* listing fails is skipped, and afterwards availableTools holds exactly
\* the tools listed by the providers that connected and listed, in
\* configuration order, with no entry from a failed provider.
C24_InitializeSkipsFailedProviders ==
  /\ regPc # "threw"
  /\ regPc = "initialized" =>
       /\ availableTools = FromServer(1) \o FromServer(2)
       /\ \A k \in 1..Len(availableTools) :
            \E i \in 1..2 : Provided(i) /\ availableTools[k].serverName = Servers[i]

\* the first server did not connect, the second connected and listed two
\* tools: those two are the available tools
C24_Witness ==
  /\ regPc = "initialized"
  /\ ~mcpServers[1].client /\ Provided(2)
  /\ Len(availableTools) = 2
  /\ availableTools[1].serverName = "s2"

(***************************************************************************)
(* Properties of overlapping user turns                                    *)
(***************************************************************************)
Range(q) == {q[i] : i \in 1..Len(q)}

\* the messages of the two executions that are in the transcript
Of1(i) == messages[i] \in Range(appended)

Of2(i) == messages[i] \in Range(turn2.appended)

\* no message of one execution lies between two messages of the other
NotInterleaved ==
  \A i, j, k \in 1..Len(messages) :
    (i < j /\ j < k) =>
      /\ ~(Of1(i) /\ Of2(j) /\ Of1(k))
      /\ ~(Of2(i) /\ Of1(j) /\ Of2(k))

\* C21: a chatbot instance processes one user turn at a time: when a second
\* line arrives while the first turn's model query is pending, the messages
\* of one turn are never placed between the messages of the other, and the
\* pop() of a failing turn removes a message of that turn only.
C21_TurnsDoNotInterleave ==
  [][/\ NotInterleaved'
     /\ (pcT # "failed" /\ pcT' = "failed" /\ messages # <<>>)
          => messages[Len(messages)] \in Range(appended')
     /\ (turn2.pc # "failed" /\ turn2'.pc = "failed" /\ messages # <<>>)
          => messages[Len(messages)] \in Range(turn2.appended)
    ]_vars

====
